---- MODULE Spec2Model ----
(***************************************************************************)
(* Task orchestration of the ffmpeg_UI backend: per-user asyncio queues,   *)
(* the single worker() coroutine, run_ffmpeg_process / run_ffmpeg_blocking *)
(* with the child transcoder, the task rows of the store, the files on     *)
(* disk, the websocket registry and the frames its websockets receive,     *)
(* DELETE /api/tasks/{id}, DELETE /api/delete-file and the startup         *)
(* recovery.                                                               *)
(***************************************************************************)
EXTENDS Integers, Sequences, FiniteSets, TLC

\* ------------------------------------------------------------------ bounds
NumUsers == 2
MaxTasks == 3
MaxOpen == 2
MaxObservers == 1
MaxSockets == 2
MaxFrames == 2
MaxOpenObs == 1
MaxIdLen == 2
MaxFiles == 2
MaxQueue == 2

\* since_update where the clock is not followed: whether 3 seconds have
\* passed is then free at every tick
Untimed == -1

Users   == 1..NumUsers
TaskIds == 1..MaxTasks
Sockets == 1..MaxSockets

\* total_duration of a request (seconds) and the elapsed seconds a time=
\* token of the transcoder can carry
Durations   == {-2, 0, 2}
ElapsedVals == {1, 3}

\* the part of them used where the ticks are not what is looked at
SchedDurations == {2}
SchedElapsed   == {1}

Min(a, b) == IF a < b THEN a ELSE b

\* progress = int(min(99, (elapsed / total_duration) * 100))
progress_of(elapsed, total) == Min(99, (elapsed * 100) \div total)

\* the values a published tick can have
TickVals == {progress_of(e, d) : e \in ElapsedVals, d \in {x \in Durations : x > 0}}

\* the values of the fields of a ProcessPayload; trim is <<startTime,
\* endTime, totalDuration>> in whole seconds, resolution is <<width, height>>
\* or <<>> for None; videoBitrate and audioBitrate are None
Containers  == {"mp4", "mkv", "mov", "mp3", "flac", "wav", "aac", "ogg"}
VideoCodecs == {"copy", "libx264", "libx265", "libaom-av1", "vp9", "mpeg4",
                "h264_videotoolbox"}
AudioCodecs == {"copy", "opus"}
Presets     == {"fast", "balanced", "quality", "ultra"}
Trims       == {<<0, 10, 10>>, <<5, 10, 10>>, <<0, 5, 10>>, <<5, 8, 10>>}
Resolutions == {<<>>, <<640, 480>>}

Payloads ==
    [container : Containers, videoCodec : VideoCodecs,
     audioCodec : AudioCodecs, useHardwareAcceleration : BOOLEAN,
     preset : Presets, trim : Trims, resolution : Resolutions]

NoPayload ==
    [container |-> "", videoCodec |-> "", audioCodec |-> "",
     useHardwareAcceleration |-> FALSE, preset |-> "", trim |-> <<0, 0, 0>>,
     resolution |-> <<>>]

\* what the capability probe can find: no GPU, one GPU of a vendor, or an
\* Intel GPU next to an NVIDIA one
Vendors == {"nvidia", "amd", "intel", "vaapi", "apple"}
GpuSets == {{}} \cup {{v} : v \in Vendors} \cup {{"intel", "nvidia"}}

VARIABLES
    tasks,                   \* processing_tasks table: TaskIds -> row
    files,                   \* files table: ids of the result assets registered
    tempFile,                \* task ids whose temp_output_path exists on disk
    finalFile,               \* task ids whose final_output_path exists on disk
    user_task_queues,        \* Users -> sequence of queued task ids
    queue_keys,              \* insertion order of user_task_queues' keys
    active_ffmpeg_processes, \* task ids with a Popen handle in the table
    active_connections,      \* registry: TaskIds -> registered websocket, 0 if none
    ws_task,                 \* Sockets -> task id of the open websocket, 0 if closed
    ws_inbox,                \* Sockets -> frames the websocket has received
    sending,                 \* <<socket, progress>> of the send the runner waits for
    last_progress,           \* last_progress of run_ffmpeg_blocking
    total_duration,          \* total_duration of the running task
    pc,                      \* position of worker() / run_ffmpeg_process
    cur,                     \* task_details["task_id"] being run, 0 if none
    curUser,                 \* the queue the running task was taken from
    snapLen,                 \* len(user_ids): the keys snapshot of this pass
    proc,                    \* state of the child transcoder process
    success,                 \* return value of run_ffmpeg_blocking: the flag
    full_stderr,             \* ... and the text, by kind ("" before it returns)
    postOk,                  \* post-processing of the running task succeeded
    skipped,                 \* history: <<u, v>> = v started while u waited
    enqLog,                  \* history: per user, ids in enqueue order, unstarted
    cancelAt,                \* history: where the task was when cancel arrived
    watch,                   \* history: websocket registered for cur since the pick
    refused,                 \* <<endpoint, status>> of the last error answer
    payload,                 \* the ProcessPayload given to the synthesizer
    gpus,                    \* vendors of the GPUs with a usable H.264 encoder
    command,                 \* the argv construct_ffmpeg_command returned
    SQLALCHEMY_DATABASE_URL, \* the store, by kind: "sqlite" or "postgresql"
    since_update,            \* seconds since last_update_time, or Untimed
    uploaded,                \* files table: ids of the uploaded assets in it
    waited                   \* proc.wait() has returned for the child of the run

vars == <<tasks, files, tempFile, finalFile, user_task_queues, queue_keys,
          active_ffmpeg_processes, active_connections, ws_task, ws_inbox,
          sending, last_progress, total_duration, pc, cur, curUser,
          snapLen, proc, success, full_stderr, postOk, skipped, enqLog, cancelAt, watch, refused, payload, gpus, command,
          SQLALCHEMY_DATABASE_URL, since_update, uploaded, waited>>

\* the machine and its configuration: nothing in the program writes them
envVars == <<gpus, SQLALCHEMY_DATABASE_URL>>

cmdVars == <<payload, envVars, command>>

\* with the uploaded assets: what the runner only reads
inVars == <<cmdVars, uploaded>>

\* what only the synthesizer, DELETE /api/delete-file and the reading loop
\* of the runner touch
restVars == <<inVars, since_update, waited>>

\* the state of the application: all but the answers and the synthesizer
appVars == <<tasks, files, tempFile, finalFile, user_task_queues, queue_keys,
             active_ffmpeg_processes, active_connections, ws_task, ws_inbox,
             sending, last_progress, total_duration, pc, cur, curUser,
             snapLen, proc, success, full_stderr, postOk, skipped, enqLog,
             cancelAt, watch>>

dbVars    == <<tasks, files>>
fsVars    == <<tempFile, finalFile>>
queueVars == <<user_task_queues, queue_keys>>
runVars   == <<pc, cur, curUser, snapLen, proc, success, full_stderr, postOk>>
histVars  == <<skipped, enqLog, cancelAt>>
wsVars    == <<active_connections, ws_task, ws_inbox>>
tickVars  == <<sending, last_progress, total_duration>>

\* ------------------------------------------------------------- store rows
\* details is the text of the row by kind: "" (none), "restart" (the text of
\* the startup recovery), "other" (stderr of the child, an error message)
Absent == [owner |-> 0, source |-> 0, status |-> "absent", details |-> "",
           progress |-> 0, result_file_id |-> 0]

Exists(t) == tasks[t].status # "absent"

Terminal == {"completed", "failed"}

\* crud.create_task: the row of owner u for the source asset f, with the
\* model's defaults (pending, progress 0)
create_task(T, t, u, f) ==
    [T EXCEPT ![t] = [owner |-> u, source |-> f, status |-> "pending",
                      details |-> "", progress |-> 0, result_file_id |-> 0]]

update_task_noresult(T, t, st, det, pr, res) ==
    IF T[t].status = "absent" THEN T
    ELSE [T EXCEPT ![t] =
            [owner          |-> T[t].owner,
             source         |-> T[t].source,
             status         |-> IF st # "" THEN st ELSE T[t].status,
             details        |-> IF det # "" THEN det ELSE T[t].details,
             progress       |-> IF pr # -1 THEN pr ELSE T[t].progress,
             result_file_id |-> T[t].result_file_id]]

\* crud.update_task: st = "" / det = "" / pr = -1 / res = 0 stand for None
\* or an empty text (field kept); a missing row is left alone
update_task(T, t, st, det, pr, res) ==
    IF T[t].status = "absent" THEN T
    ELSE [T EXCEPT ![t] =
            [owner          |-> T[t].owner,
             source         |-> T[t].source,
             status         |-> IF st # "" THEN st ELSE T[t].status,
             details        |-> IF det # "" THEN det ELSE T[t].details,
             progress       |-> IF pr # -1 THEN pr ELSE T[t].progress,
             result_file_id |-> IF res # 0 THEN res ELSE T[t].result_file_id]]

\* crud.delete_task
delete_row(T, t) == [T EXCEPT ![t] = Absent]

\* ------------------------------------------------------------ the queues
InQueue(t) == \E u \in Users : \E i \in 1..Len(user_task_queues[u]) :
                 user_task_queues[u][i] = t

InSeq(s, x) == \E i \in 1..Len(s) : s[i] = x

\* asyncio.Queue.put: append at the tail
queue_put(q, t) == Append(q, t)

get_nowait_lifo(q) == <<q[Len(q)], SubSeq(q, 1, Len(q) - 1)>>

\* asyncio.Queue.get_nowait: <<item, remaining queue>>, the item is the head
get_nowait(q) == <<Head(q), Tail(q)>>

\* the first user, in key order, whose queue is not empty (0 if none): the
\* for loop of worker() with its break after one task
RECURSIVE FirstNonEmpty(_, _)
FirstNonEmpty(keys, Q) ==
    IF keys = <<>> THEN 0
    ELSE IF Q[Head(keys)] # <<>> THEN Head(keys)
    ELSE FirstNonEmpty(Tail(keys), Q)

\* an identifier the store has never handed out, as far as anything still
\* refers to it: no row, no queue entry, not running, no file, no asset
FreshIn(T, t) ==
    /\ T[t].status = "absent"
    /\ ~InQueue(t)
    /\ cur # t
    /\ t \notin files \cup tempFile \cup finalFile

Fresh(t) == FreshIn(tasks, t)

\* the identifier a sequence gives to the next row: one it has not handed
\* out before (the lowest one that nothing refers to any more)
LowestFresh(T) ==
    CHOOSE t \in TaskIds :
        FreshIn(T, t) /\ \A t2 \in TaskIds : FreshIn(T, t2) => t <= t2

\* the largest identifier of a row of the table, 0 for an empty table
MaxRow(T) ==
    CHOOSE m \in 0..MaxTasks :
        /\ m = 0 \/ T[m].status # "absent"
        /\ \A t \in TaskIds : T[t].status # "absent" => t <= m

\* the identifier the store gives to the next row of processing_tasks (id =
\* Column(Integer, primary_key=True)): in SQLite the column is the rowid,
\* one more than the largest rowid in the table; elsewhere a sequence
next_id(T) ==
    IF SQLALCHEMY_DATABASE_URL = "sqlite" THEN MaxRow(T) + 1
    ELSE LowestFresh(T)

\* the store has identifiers left, within TaskIds, for n more rows
HasIds(n) ==
    IF SQLALCHEMY_DATABASE_URL = "sqlite" THEN MaxRow(tasks) + n <= MaxTasks
    ELSE n <= Cardinality({t \in TaskIds : Fresh(t)})

\* the event loop can run a request handler (an async def endpoint): the
\* worker coroutine is suspended in asyncio.sleep, in await run_in_executor,
\* or in the send_json of an attached websocket
LoopFree ==
    \/ pc = "idle"
    \/ pc \in {"spawn", "running", "returned"}
    \/ pc \in {"notify", "notify_failed"} /\ active_connections[cur] # 0

\* ------------------------------------------------------ ConnectionManager
NoFrame == <<>>

\* the message of send_progress: {"progress": p} and, if given, the status
Frame(p, st) == <<p, st>>

IsTerminalFrame(f) == f[2] # ""

\* websocket.send_json on an open websocket: the client receives the frame
send_json(inbox, s, f) == [inbox EXCEPT ![s] = Append(@, f)]

disconnect_all(A, t) == [x \in DOMAIN A |-> 0]

\* ConnectionManager.disconnect: the key is removed if it is there
disconnect(A, t) == [A EXCEPT ![t] = 0]

\* the websockets that are open
OpenSockets == {s \in Sockets : ws_task[s] # 0}

\* the assets that were uploaded and their owner_id; the result assets have
\* the identifiers of their tasks, which no text over Chars names
uploads == (7 :> 1) @@ (77 :> 1) @@ (8 :> 2) @@ (78 :> 2)

\* File.filename, the display name: the two users have each uploaded a file
\* named "a"; a result asset is named <base>_processed.<container>, which
\* is the name of no upload here
filename(f) ==
    IF f \in DOMAIN uploads
    THEN CASE f = 7 -> "a" [] f = 77 -> "b" [] f = 8 -> "a" [] f = 78 -> "c"
    ELSE "processed"

\* -------------------------------------------------------------------- Init
InitApp ==
    /\ tasks = [t \in TaskIds |-> Absent]
    /\ files = {}
    /\ tempFile = {}
    /\ finalFile = {}
    /\ user_task_queues = [u \in Users |-> <<>>]
    /\ queue_keys = <<>>
    /\ active_ffmpeg_processes = {}
    /\ active_connections = [t \in TaskIds |-> 0]
    /\ ws_task = [s \in Sockets |-> 0]
    /\ ws_inbox = [s \in Sockets |-> <<>>]
    /\ sending = NoFrame
    /\ last_progress = -1
    /\ total_duration = 0
    /\ pc = "idle"
    /\ cur = 0
    /\ curUser = 0
    /\ snapLen = 0
    /\ proc = "none"
    /\ success = FALSE
    /\ full_stderr = ""
    /\ postOk = FALSE
    /\ skipped = {}
    /\ enqLog = [u \in Users |-> <<>>]
    /\ cancelAt = [t \in TaskIds |-> "none"]
    /\ watch = 0
    /\ refused = <<>>
    /\ uploaded = DOMAIN uploads
    /\ waited = FALSE

\* no request has been given to the synthesizer; the store is one whose
\* identifiers come from a sequence
Init ==
    /\ InitApp
    /\ payload = NoPayload
    /\ gpus = {}
    /\ command = <<>>
    /\ SQLALCHEMY_DATABASE_URL = "postgresql"
    /\ since_update = Untimed

\* ------------------------------------------- construct_ffmpeg_command
\* detect_hardware_info: the first vendor, in the order of priority, that has
\* a GPU and whose H.264 encoder ffmpeg offers; "none" is None
priority == <<"nvidia", "amd", "intel", "vaapi", "apple">>

RECURSIVE first_usable(_, _)
first_usable(order, G) ==
    IF order = <<>> THEN "none"
    ELSE IF Head(order) \in G THEN Head(order)
    ELSE first_usable(Tail(order), G)

\* detect_hardware_encoder: info.vendor
detect_hardware_encoder(G) == first_usable(priority, G)

\* which of the encoder marks occur in a codec name: k in video_codec
marks(name) ==
    CASE name \in {"h264_nvenc", "hevc_nvenc", "av1_nvenc"} -> {"nvenc"}
      [] name \in {"h264_qsv", "hevc_qsv"} -> {"qsv"}
      [] name \in {"h264_amf", "hevc_amf"} -> {"amf"}
      [] name \in {"h264_videotoolbox", "hevc_videotoolbox"} -> {"videotoolbox"}
      [] OTHER -> {}

\* the encoder the output side gets when acceleration is asked for
hw_codec(hw_type, video_codec) ==
    CASE hw_type = "nvidia" /\ video_codec = "libx264" -> "h264_nvenc"
      [] hw_type = "nvidia" /\ video_codec = "libx265" -> "hevc_nvenc"
      [] hw_type = "nvidia" /\ video_codec = "libaom-av1" -> "av1_nvenc"
      [] hw_type = "intel" /\ video_codec = "libx264" -> "h264_qsv"
      [] hw_type = "intel" /\ video_codec = "libx265" -> "hevc_qsv"
      [] hw_type = "amd" /\ video_codec = "libx264" -> "h264_amf"
      [] hw_type = "amd" /\ video_codec = "libx265" -> "hevc_amf"
      [] hw_type = "mac" /\ video_codec = "libx264" -> "h264_videotoolbox"
      [] hw_type = "mac" /\ video_codec = "libx265" -> "hevc_videotoolbox"
      [] OTHER -> video_codec

\* the container check of a codec that is not a hardware encoder
container_codec(container, video_codec) ==
    CASE container = "mp4"
           /\ video_codec \notin {"libx264", "libx265", "libaom-av1"} -> "libx264"
      [] container = "mkv"
           /\ video_codec \notin {"libx264", "libx265", "libaom-av1", "vp9"}
           -> "libx264"
      [] container = "mov" /\ video_codec \notin {"libx264", "libx265"} -> "libx264"
      [] OTHER -> video_codec

\* the audio encoder
container_audio(container, audio_codec) ==
    IF container \in {"mp4", "mov"} /\ audio_codec \notin {"aac", "mp3"}
    THEN "aac"
    ELSE IF container = "mkv"
            /\ audio_codec \notin {"aac", "mp3", "opus", "flac"}
    THEN "aac"
    ELSE IF container = "mp3" THEN "libmp3lame"
    ELSE IF container = "flac" THEN "flac"
    ELSE IF container = "aac" THEN "aac"
    ELSE IF container = "wav" THEN "pcm_s16le"
    ELSE audio_codec

preset_map_p5 ==
    [nvidia |-> [fast |-> "p1", balanced |-> "p5", quality |-> "p7"],
     intel  |-> [fast |-> "veryfast", balanced |-> "medium",
                 quality |-> "veryslow"],
     amd    |-> [fast |-> "speed", balanced |-> "balanced",
                 quality |-> "quality"],
     mac    |-> [fast |-> "speed", balanced |-> "default",
                 quality |-> "quality"],
     cpu    |-> [fast |-> "superfast", balanced |-> "medium",
                 quality |-> "slow"]]

\* preset_map: the preset tokens of each kind of encoder
preset_map ==
    [nvidia |-> [fast |-> "p1", balanced |-> "p4", quality |-> "p7"],
     intel  |-> [fast |-> "veryfast", balanced |-> "medium",
                 quality |-> "veryslow"],
     amd    |-> [fast |-> "speed", balanced |-> "balanced",
                 quality |-> "quality"],
     mac    |-> [fast |-> "speed", balanced |-> "default",
                 quality |-> "quality"],
     cpu    |-> [fast |-> "superfast", balanced |-> "medium",
                 quality |-> "slow"]]

\* str() of a time of the payload (a float) and the texts made of numbers
str(x) ==
    CASE x = 0 -> "0.0" [] x = 5 -> "5.0" [] x = 8 -> "8.0" [] x = 10 -> "10.0"

size_text(r) == CASE r = <<640, 480>> -> "640x480"

scale_text(kind, r) ==
    CASE kind = "cuda" /\ r = <<640, 480>> -> "scale_cuda=640:480"
      [] kind = "qsv" /\ r = <<640, 480>> -> "scale_qsv=640:480"

seek_always(startTime, endTime, totalDuration) ==
    <<"-ss", str(startTime), "-to", str(endTime)>>

\* -ss when startTime > 0, -to when endTime < totalDuration
seek(startTime, endTime, totalDuration) ==
    (IF startTime > 0 THEN <<"-ss", str(startTime)>> ELSE <<>>)
    \o (IF endTime < totalDuration THEN <<"-to", str(endTime)>> ELSE <<>>)

AudioOnly_nomp3 == {"flac", "wav", "aac", "ogg"}

\* is_audio_only_output: the containers without a video stream
AudioOnly == {"mp3", "flac", "wav", "aac", "ogg"}

\* construct_ffmpeg_command(input_path, output_path, params), with G what
\* the capability probe finds
construct_ffmpeg_command(input_path, output_path, params, G) ==
    LET startTime     == params.trim[1]
        endTime       == params.trim[2]
        totalDuration == params.trim[3]
        container     == params.container
        hw_type == IF params.useHardwareAcceleration
                   THEN detect_hardware_encoder(G) ELSE "none"
        vc1 == IF params.useHardwareAcceleration /\ params.videoCodec # "copy"
               THEN hw_codec(hw_type, params.videoCodec)
               ELSE params.videoCodec
        is_audio_only_output == container \in AudioOnly
        is_hw_codec == marks(vc1) # {}
        video_codec ==
            IF ~is_audio_only_output /\ vc1 # "copy" /\ ~is_hw_codec
            THEN container_codec(container, vc1) ELSE vc1
        audio_codec ==
            IF params.audioCodec # "copy"
            THEN container_audio(container, params.audioCodec)
            ELSE params.audioCodec
        enable_input_hw_accel == params.useHardwareAcceleration
        actual_hw_type ==
            IF "nvenc" \in marks(video_codec) THEN "nvidia"
            ELSE IF "qsv" \in marks(video_codec) THEN "intel"
            ELSE IF "amf" \in marks(video_codec) THEN "amd"
            ELSE IF "videotoolbox" \in marks(video_codec) THEN "mac"
            ELSE "cpu"
        preset_options == preset_map[actual_hw_type]
        actual_preset ==
            IF params.preset \in DOMAIN preset_options
            THEN preset_options[params.preset]
            ELSE preset_options["balanced"]
        trimmed == startTime > 0 \/ endTime < totalDuration
        hwaccel ==
            IF enable_input_hw_accel /\ hw_type = "nvidia"
            THEN <<"-hwaccel", "cuda", "-hwaccel_output_format", "cuda">>
            ELSE IF enable_input_hw_accel /\ hw_type = "intel"
            THEN <<"-hwaccel", "qsv", "-hwaccel_output_format", "qsv">>
            ELSE <<>>
        maps ==
            IF is_audio_only_output THEN <<"-vn", "-map", "0:a?">>
            ELSE <<"-map", "0:v?", "-map", "0:a?">>
        preset_opt ==
            IF actual_hw_type = "amd" THEN <<"-quality", actual_preset>>
            ELSE IF actual_hw_type # "mac" THEN <<"-preset", actual_preset>>
            ELSE <<>>
        scale ==
            IF params.resolution = <<>> THEN <<>>
            ELSE IF enable_input_hw_accel /\ actual_hw_type = "nvidia"
            THEN <<"-vf", scale_text("cuda", params.resolution)>>
            ELSE IF enable_input_hw_accel /\ actual_hw_type = "intel"
            THEN <<"-vf", scale_text("qsv", params.resolution)>>
            ELSE <<"-s", size_text(params.resolution)>>
        keyframes ==
            IF trimmed THEN <<"-force_key_frames", "expr:eq(n,0)">> ELSE <<>>
        video ==
            IF is_audio_only_output THEN <<>>
            ELSE IF video_codec # "copy"
            THEN <<"-c:v", video_codec>> \o preset_opt \o scale \o keyframes
            ELSE <<"-c:v", "copy">>
        audio == <<"-c:a", audio_codec>>
    IN <<"ffmpeg", "-y">> \o hwaccel
       \o <<"-analyzeduration", "100M", "-probesize", "100M">>
       \o <<"-ignore_unknown">>
       \o <<"-i", input_path>>
       \o seek(startTime, endTime, totalDuration)
       \o maps \o <<"-fflags", "+genpts">>
       \o video \o audio \o <<output_path>>

\* the synthesizer is given the payload
synthesize ==
    /\ payload # NoPayload
    /\ command = <<>>
    /\ command' = construct_ffmpeg_command("in", "out", payload, gpus)
    /\ UNCHANGED <<appVars, refused, payload, envVars, since_update,
                   uploaded, waited>>

\* ------------------------------------------------------ POST /api/process
\* payload.files is a list of texts; a text is a tuple of characters, here
\* over two digits and a letter: "7", "8", "77", "88", "x7", ...
Chars == {"7", "8", "x"}

Texts == UNION {[1..n -> Chars] : n \in 1..MaxIdLen}

\* the texts used as file ids: one that does not parse, the ones that name
\* an uploaded asset, one that names none
FileIdStrs ==
    {s \in Texts : s \in {<<"x", "7">>, <<"7">>, <<"8">>, <<"7", "7">>,
                          <<"8", "8">>}}

Requests == UNION {[1..n -> FileIdStrs] : n \in 0..MaxFiles}

IsDigit(c) == c \in {"0", "1", "2", "3", "4", "5", "6", "7", "8", "9"}

DigitVal(c) ==
    CASE c = "0" -> 0 [] c = "1" -> 1 [] c = "2" -> 2 [] c = "3" -> 3
      [] c = "4" -> 4 [] c = "5" -> 5 [] c = "6" -> 6 [] c = "7" -> 7
      [] c = "8" -> 8 [] c = "9" -> 9

RECURSIVE DecVal(_)
DecVal(s) ==
    IF s = <<>> THEN 0
    ELSE 10 * DecVal(SubSeq(s, 1, Len(s) - 1)) + DigitVal(s[Len(s)])

ValueError == -1

\* int(file_id_str) of a text of digits and letters: the decimal value, or
\* ValueError
int(s) ==
    IF s # <<>> /\ \A i \in 1..Len(s) : IsDigit(s[i]) THEN DecVal(s)
    ELSE ValueError

get_file_by_id_anyowner(f) == IF f \in uploaded THEN 1 ELSE 0

\* crud.get_file_by_id, then .owner_id: 0 when there is no such row
get_file_by_id(f) == IF f \in uploaded THEN uploads[f] ELSE 0

\* the for loop over payload.files: a text that does not parse, or names no
\* asset of the caller, is skipped; for every other one the pending row is
\* created and the details are put on the caller's queue (created on first
\* use); created_tasks collects the rows
RECURSIVE process_loop(_, _, _)
process_loop(st, u, fs) ==
    IF fs = <<>> THEN st
    ELSE LET file_id == int(Head(fs))
         IN IF file_id = ValueError \/ get_file_by_id(file_id) # u
            THEN process_loop(st, u, Tail(fs))
            ELSE LET t == next_id(st.tasks)
                 IN process_loop(
                       [tasks   |-> create_task(st.tasks, t, u, file_id),
                        queues  |-> [st.queues EXCEPT ![u] = queue_put(@, t)],
                        keys    |-> IF InSeq(st.keys, u) THEN st.keys
                                    ELSE Append(st.keys, u),
                        log     |-> [st.log EXCEPT ![u] = Append(@, t)],
                        cancel  |-> [st.cancel EXCEPT ![t] = "none"],
                        created |-> Append(st.created, t)],
                       u, Tail(fs))

\* the texts of a request that the loop does not skip
ValidFiles(u, fs) ==
    SelectSeq(fs, LAMBDA x : int(x) # ValueError /\ get_file_by_id(int(x)) = u)

\* process_files for the caller u and payload.files = fs; 404 when
\* created_tasks is empty.  (The store has an identifier for every row: the
\* request is taken when TaskIds has enough unused ones.)
process_files(u, fs) ==
    /\ LoopFree
    /\ HasIds(Len(ValidFiles(u, fs)))
    /\ LET st == process_loop([tasks |-> tasks, queues |-> user_task_queues,
                               keys |-> queue_keys, log |-> enqLog,
                               cancel |-> cancelAt, created |-> <<>>], u, fs)
       IN /\ tasks' = st.tasks
          /\ user_task_queues' = st.queues
          /\ queue_keys' = st.keys
          /\ enqLog' = st.log
          /\ cancelAt' = st.cancel
          /\ refused' = IF st.created = <<>> THEN <<"process", 404>>
                        ELSE refused
    /\ UNCHANGED <<files, fsVars, active_ffmpeg_processes, wsVars, tickVars,
                   runVars, skipped, watch, restVars>>

\* a request with one text, which names an asset of the caller
OneOwnFile(u) ==
    {fs \in Requests : Len(fs) = 1 /\ Len(fs[1]) = 1 /\ ValidFiles(u, fs) = fs}

\* ------------------------------------------------------------- worker()
\* one pass of the while loop that finds a task: snapshot the keys, take the
\* head of the first non-empty queue, then (after the run) break; the
\* task_details carry the total_duration of the request
worker_idle_noawait == pc \in {"idle", "pass", "spawn", "running"}

\* worker() awaits run_ffmpeg_process before its next pass: it looks at the
\* queues only when no task is being run ("idle": in asyncio.sleep, "pass":
\* at the top of the loop right after a run, without having slept)
worker_idle == pc \in {"idle", "pass"}

worker_pick ==
    /\ worker_idle
    /\ FirstNonEmpty(queue_keys, user_task_queues) # 0
    /\ LET u == FirstNonEmpty(queue_keys, user_task_queues)
           g == get_nowait(user_task_queues[u])
       IN /\ cur' = g[1]
          /\ curUser' = u
          /\ snapLen' = Len(queue_keys)
          /\ user_task_queues' = [user_task_queues EXCEPT ![u] = g[2]]
          /\ enqLog' = [enqLog EXCEPT
                          ![u] = SelectSeq(@, LAMBDA x : x # g[1])]
          /\ skipped' = {p \in skipped : p[1] # u} \cup
                        {<<w, u>> : w \in {x \in Users :
                                      x # u /\ user_task_queues[x] # <<>>}}
          /\ watch' = active_connections[g[1]]
    /\ \E d \in Durations : total_duration' = d
    /\ pc' = "picked"
    /\ UNCHANGED <<dbVars, fsVars, queue_keys, active_ffmpeg_processes,
                   wsVars, sending, last_progress, proc, success, full_stderr, postOk,
                   cancelAt, refused, restVars>>

\* --------------------------------------------------- run_ffmpeg_process
\* crud.update_task(status="processing", progress=0), then hand over to the
\* executor thread
run_mark_processing ==
    /\ pc = "picked"
    /\ tasks' = update_task(tasks, cur, "processing", "", 0, 0)
    /\ pc' = "spawn"
    /\ UNCHANGED <<files, fsVars, queueVars, active_ffmpeg_processes,
                   wsVars, tickVars, cur, curUser, snapLen, proc, success, full_stderr,
                   postOk, histVars, watch, refused, restVars>>

\* last_update_time = time.time(): no second has passed since
now(x) == IF x = Untimed THEN Untimed ELSE 0

\* three seconds go by while the runner executes
time_passes ==
    /\ pc = "running"
    /\ since_update = 0
    /\ since_update' = 3
    /\ UNCHANGED <<appVars, refused, inVars, waited>>

\* run_ffmpeg_blocking: Popen and the table entry, last_progress = -1,
\* last_update_time = now, or FileNotFoundError
blocking_spawn ==
    /\ pc = "spawn"
    /\ \/ /\ proc' = "alive"
          /\ active_ffmpeg_processes' = active_ffmpeg_processes \cup {cur}
          /\ pc' = "running"
          /\ since_update' = now(since_update)
          /\ waited' = FALSE
          /\ UNCHANGED <<success, full_stderr>>
       \/ /\ success' = FALSE
          /\ full_stderr' = "notfound"
          /\ pc' = "returned"
          /\ UNCHANGED <<proc, active_ffmpeg_processes, since_update, waited>>
    /\ last_progress' = -1
    /\ UNCHANGED <<dbVars, fsVars, queueVars, wsVars, sending, total_duration,
                   cur, curUser, snapLen, postOk, histVars, watch, refused, inVars>>

\* an exception that reaches the outer except of run_ffmpeg_process (the
\* executor call raising): update_task(failed, details=str(e)), no frame
run_exception ==
    /\ pc = "spawn"
    /\ tasks' = update_task(tasks, cur, "failed", "other", -1, 0)
    /\ postOk' = FALSE
    /\ pc' = "cleanup"
    /\ UNCHANGED <<files, fsVars, queueVars, active_ffmpeg_processes,
                   wsVars, tickVars, cur, curUser, snapLen, proc, success, full_stderr,
                   histVars, watch, refused, restVars>>

\* the child writes its output to temp_output_path
child_write ==
    /\ pc = "running"
    /\ proc = "alive"
    /\ cur \notin tempFile
    /\ tempFile' = tempFile \cup {cur}
    /\ UNCHANGED <<dbVars, finalFile, queueVars, active_ffmpeg_processes,
                   wsVars, tickVars, runVars, histVars, watch, refused, restVars>>

\* the child exits by itself with status 0 or another status
child_exit ==
    /\ pc = "running"
    /\ proc = "alive"
    /\ \E r \in {"exit0", "exit1"} : proc' = r
    /\ UNCHANGED <<dbVars, fsVars, queueVars, active_ffmpeg_processes,
                   wsVars, tickVars, pc, cur, curUser, snapLen, success, full_stderr,
                   postOk, histVars, watch, refused, restVars>>

\* frames the websocket registered for the running task has received
CurFrames ==
    IF cur # 0 /\ active_connections[cur] # 0
    THEN Len(ws_inbox[active_connections[cur]]) ELSE 0

blocking_progress_always(elapsed, late) ==
    /\ pc = "running"
    /\ proc = "alive"
    /\ sending = NoFrame
    /\ total_duration > 0
    /\ since_update # Untimed => (late <=> since_update >= 3)
    /\ LET progress == progress_of(elapsed, total_duration)
       IN /\ TRUE
          /\ IF progress < 100
             THEN IF active_connections[cur] # 0
                  THEN /\ sending' = <<active_connections[cur], progress>>
                       /\ UNCHANGED <<tasks, last_progress, since_update>>
                  ELSE /\ tasks' = update_task(tasks, cur, "", "", progress, 0)
                       /\ last_progress' = progress
                       /\ since_update' = now(since_update)
                       /\ UNCHANGED sending
             ELSE /\ last_progress' = progress
                  /\ since_update' = now(since_update)
                  /\ UNCHANGED <<tasks, sending>>
    /\ UNCHANGED <<files, fsVars, queueVars, active_ffmpeg_processes,
                   wsVars, total_duration, runVars, histVars, watch, refused, inVars, waited>>

\* a time= line with `elapsed` seconds is read; `late` says that 3 seconds
\* have passed since last_update_time (what since_update says, where the
\* clock is followed).  With total_duration > 0 and the
\* coalescing condition true the value is published: send_progress runs on
\* the event loop and the runner waits for it in future.result() (with a
\* websocket registered this is the pending send), then update_task(progress)
\* and last_progress = progress
blocking_progress(elapsed, late) ==
    /\ pc = "running"
    /\ proc = "alive"
    /\ sending = NoFrame
    /\ total_duration > 0
    /\ since_update # Untimed => (late <=> since_update >= 3)
    /\ LET progress == progress_of(elapsed, total_duration)
       IN /\ progress >= last_progress + 10 \/ late
          /\ IF progress < 100
             THEN IF active_connections[cur] # 0
                  THEN /\ sending' = <<active_connections[cur], progress>>
                       /\ UNCHANGED <<tasks, last_progress, since_update>>
                  ELSE /\ tasks' = update_task(tasks, cur, "", "", progress, 0)
                       /\ last_progress' = progress
                       /\ since_update' = now(since_update)
                       /\ UNCHANGED sending
             ELSE /\ last_progress' = progress
                  /\ since_update' = now(since_update)
                  /\ UNCHANGED <<tasks, sending>>
    /\ UNCHANGED <<files, fsVars, queueVars, active_ffmpeg_processes,
                   wsVars, total_duration, runVars, histVars, watch, refused, inVars, waited>>

\* the pending send_json returns: the websocket has the frame, future.result()
\* returns, then update_task(progress) and last_progress = progress
send_return ==
    /\ sending # NoFrame
    /\ ws_task[sending[1]] # 0
    /\ ws_inbox' = send_json(ws_inbox, sending[1], Frame(sending[2], ""))
    /\ tasks' = update_task(tasks, cur, "", "", sending[2], 0)
    /\ last_progress' = sending[2]
    /\ since_update' = now(since_update)
    /\ sending' = NoFrame
    /\ UNCHANGED <<files, fsVars, queueVars, active_ffmpeg_processes,
                   active_connections, ws_task, total_duration, runVars,
                   histVars, watch, refused, inVars, waited>>

\* the pending send_json raises: future.result() raises, except Exception:
\* pass skips the store update and leaves last_progress
send_raise ==
    /\ sending # NoFrame
    /\ sending' = NoFrame
    /\ watch' = IF watch = sending[1] THEN 0 ELSE watch
    /\ UNCHANGED <<dbVars, fsVars, queueVars, active_ffmpeg_processes,
                   wsVars, last_progress, total_duration, runVars, histVars, refused, restVars>>

\* q.get(timeout=30) raises Empty while the child is alive: TimeoutExpired,
\* proc.kill(), return False; finally: the table entry is removed.  The
\* runner is not in q.get while it waits for a send
blocking_stall ==
    /\ pc = "running"
    /\ proc = "alive"
    /\ sending = NoFrame
    /\ proc' = "killed"
    /\ success' = FALSE
    /\ full_stderr' = "timeout"
    /\ active_ffmpeg_processes' = active_ffmpeg_processes \ {cur}
    /\ pc' = "returned"
    /\ UNCHANGED <<dbVars, fsVars, queueVars, wsVars, tickVars, cur,
                   curUser, snapLen, postOk, histVars, watch, refused, restVars>>

blocking_return_any ==
    /\ pc = "running"
    /\ proc \in {"exit0", "exit1", "killed"}
    /\ sending = NoFrame
    /\ success' = (proc # "exit1")
    /\ full_stderr' = "stderr"
    /\ active_ffmpeg_processes' = active_ffmpeg_processes \ {cur}
    /\ waited' = TRUE
    /\ pc' = "returned"
    /\ UNCHANGED <<dbVars, fsVars, queueVars, wsVars, tickVars, cur,
                   curUser, snapLen, proc, postOk, histVars, watch, refused, inVars,
                   since_update>>

\* end of stderr: proc.wait(), success iff returncode == 0; finally: the
\* table entry is removed
blocking_return ==
    /\ pc = "running"
    /\ proc \in {"exit0", "exit1", "killed"}
    /\ sending = NoFrame
    /\ success' = (proc = "exit0")
    /\ full_stderr' = "stderr"
    /\ active_ffmpeg_processes' = active_ffmpeg_processes \ {cur}
    /\ waited' = TRUE
    /\ pc' = "returned"
    /\ UNCHANGED <<dbVars, fsVars, queueVars, wsVars, tickVars, cur,
                   curUser, snapLen, proc, postOk, histVars, watch, refused, inVars,
                   since_update>>

blocking_exception_keep ==
    /\ \/ pc = "spawn"
       \/ pc = "running" /\ sending = NoFrame /\ last_progress = -1
    /\ success' = FALSE
    /\ full_stderr' = "exception"
    /\ pc' = "returned"
    /\ last_progress' = -1
    /\ UNCHANGED <<dbVars, fsVars, queueVars, wsVars, sending, total_duration,
                   cur, curUser, snapLen, proc, postOk, histVars, watch, refused, restVars,
                   active_ffmpeg_processes>>

\* except Exception: an exception other than FileNotFoundError and
\* TimeoutExpired leaves run_ffmpeg_blocking (Popen raising another OSError,
\* the reader thread failing to start): return False, str(e) without a kill;
\* finally: the table entry, if it was installed, is removed
blocking_exception ==
    /\ \/ pc = "spawn"
       \/ pc = "running" /\ sending = NoFrame /\ last_progress = -1
    /\ success' = FALSE
    /\ full_stderr' = "exception"
    /\ active_ffmpeg_processes' = active_ffmpeg_processes \ {cur}
    /\ pc' = "returned"
    /\ last_progress' = -1
    /\ UNCHANGED <<dbVars, fsVars, queueVars, wsVars, sending, total_duration,
                   cur, curUser, snapLen, proc, postOk, histVars, watch, refused, restVars>>

\* success branch: a file at the final path is removed, os.replace(temp,
\* final), get_task, create_user_file, update_task(completed, 100,
\* result_file_id); an exception (os.replace raising, with the temp file
\* missing or not; asset registration failing) goes to the inner except:
\* update_task(failed) and the "failed" frame
post_success ==
    /\ pc = "returned"
    /\ success
    /\ \/ /\ cur \in tempFile
          /\ tempFile' = tempFile \ {cur}
          /\ finalFile' = finalFile \cup {cur}
          /\ \/ /\ files' = IF Exists(cur) THEN files \cup {cur} ELSE files
                /\ tasks' = update_task(tasks, cur, "completed", "other", 100, cur)
                /\ postOk' = TRUE
                /\ pc' = "notify"
             \/ /\ Exists(cur)
                /\ UNCHANGED files
                /\ tasks' = update_task(tasks, cur, "failed", "other", -1, 0)
                /\ postOk' = FALSE
                /\ pc' = "notify_failed"
       \/ /\ UNCHANGED <<fsVars, files>>
          /\ tasks' = update_task(tasks, cur, "failed", "other", -1, 0)
          /\ postOk' = FALSE
          /\ pc' = "notify_failed"
    /\ UNCHANGED <<queueVars, active_ffmpeg_processes, wsVars, tickVars,
                   cur, curUser, snapLen, proc, success, full_stderr, histVars, watch, refused, restVars>>

\* failure branch: update_task(failed, details=full_stderr), then the
\* "failed" frame
post_failure ==
    /\ pc = "returned"
    /\ ~success
    /\ tasks' = update_task(tasks, cur, "failed", "other", -1, 0)
    /\ postOk' = FALSE
    /\ pc' = "notify_failed"
    /\ UNCHANGED <<files, fsVars, queueVars, active_ffmpeg_processes,
                   wsVars, tickVars, cur, curUser, snapLen, proc, success, full_stderr,
                   histVars, watch, refused, restVars>>

\* await conn_manager.send_progress(task_id, 100, "completed"): a no-op when
\* nobody is registered; with a websocket registered send_json returns (the
\* frame is received) or raises, and the inner except then stores failed and
\* sends the "failed" frame
notify_completed ==
    /\ pc = "notify"
    /\ \/ /\ active_connections[cur] = 0
          /\ pc' = "cleanup"
          /\ UNCHANGED <<tasks, ws_inbox, watch>>
       \/ /\ active_connections[cur] # 0
          /\ ws_inbox' = send_json(ws_inbox, active_connections[cur],
                                   Frame(100, "completed"))
          /\ pc' = "cleanup"
          /\ UNCHANGED <<tasks, watch>>
       \/ /\ active_connections[cur] # 0
          /\ tasks' = update_task(tasks, cur, "failed", "other", -1, 0)
          /\ watch' = IF watch = active_connections[cur] THEN 0 ELSE watch
          /\ pc' = "notify_failed"
          /\ UNCHANGED ws_inbox
    /\ UNCHANGED <<files, fsVars, queueVars, active_ffmpeg_processes,
                   active_connections, ws_task, tickVars, cur, curUser,
                   snapLen, proc, success, full_stderr, postOk, histVars, refused, restVars>>

\* await conn_manager.send_progress(task_id, 100, "failed"): a no-op when
\* nobody is registered; with a websocket registered send_json returns or
\* raises, and the outer except then stores failed once more
notify_failed ==
    /\ pc = "notify_failed"
    /\ \/ /\ active_connections[cur] = 0
          /\ UNCHANGED <<tasks, ws_inbox, watch>>
       \/ /\ active_connections[cur] # 0
          /\ ws_inbox' = send_json(ws_inbox, active_connections[cur],
                                   Frame(100, "failed"))
          /\ UNCHANGED <<tasks, watch>>
       \/ /\ active_connections[cur] # 0
          /\ tasks' = update_task(tasks, cur, "failed", "other", -1, 0)
          /\ watch' = IF watch = active_connections[cur] THEN 0 ELSE watch
          /\ UNCHANGED ws_inbox
    /\ pc' = "cleanup"
    /\ UNCHANGED <<files, fsVars, queueVars, active_ffmpeg_processes,
                   active_connections, ws_task, tickVars, cur, curUser,
                   snapLen, proc, success, full_stderr, postOk, histVars, refused, restVars>>

run_cleanup_keeptemp ==
    /\ pc = "cleanup"
    /\ tempFile' = tempFile
    /\ active_connections' = disconnect(active_connections, cur)
    /\ pc' = IF \A i \in 1..snapLen : user_task_queues[queue_keys[i]] = <<>>
             THEN "idle" ELSE "pass"
    /\ cur' = 0
    /\ curUser' = 0
    /\ snapLen' = 0
    /\ proc' = "none"
    /\ waited' = FALSE
    /\ success' = FALSE
    /\ full_stderr' = ""
    /\ postOk' = FALSE
    /\ last_progress' = -1
    /\ total_duration' = 0
    /\ cancelAt' = [cancelAt EXCEPT ![cur] = "none"]
    /\ watch' = 0
    /\ UNCHANGED <<dbVars, finalFile, queueVars, active_ffmpeg_processes,
                   ws_task, ws_inbox, sending, skipped, enqLog, refused, inVars,
                   since_update>>

\* finally: remove the temp file, conn_manager.disconnect(task_id); back in
\* worker(): task_done(), break, and asyncio.sleep only if every queue of
\* the snapshot is empty, else the next pass at once
run_cleanup ==
    /\ pc = "cleanup"
    /\ tempFile' = tempFile \ {cur}
    /\ active_connections' = disconnect(active_connections, cur)
    /\ pc' = IF \A i \in 1..snapLen : user_task_queues[queue_keys[i]] = <<>>
             THEN "idle" ELSE "pass"
    /\ cur' = 0
    /\ curUser' = 0
    /\ snapLen' = 0
    /\ proc' = "none"
    /\ waited' = FALSE
    /\ success' = FALSE
    /\ full_stderr' = ""
    /\ postOk' = FALSE
    /\ last_progress' = -1
    /\ total_duration' = 0
    /\ cancelAt' = [cancelAt EXCEPT ![cur] = "none"]
    /\ watch' = 0
    /\ UNCHANGED <<dbVars, finalFile, queueVars, active_ffmpeg_processes,
                   ws_task, ws_inbox, sending, skipped, enqLog, refused, inVars,
                   since_update>>

\* ------------------------------------------------ DELETE /api/tasks/{id}
\* terminate_task_process: kill the child if the table has an entry
terminate_task_process(t) ==
    IF t \in active_ffmpeg_processes /\ proc = "alive" THEN "killed" ELSE proc

not_authorized_off(u, t) == FALSE

\* db_task and db_task.owner_id != current_user.id: the 403 of delete_task
not_authorized(u, t) == Exists(t) /\ tasks[t].owner # u

delete_task_cascade(u, t) ==
    IF not_authorized(u, t)
    THEN /\ refused' = <<"delete", 403>>
         /\ UNCHANGED <<appVars, restVars>>
    ELSE /\ Exists(t)
         /\ proc' = IF tasks[t].status \in {"processing", "pending"}
                    THEN terminate_task_process(t) ELSE proc
         /\ tasks' = delete_row(tasks, t)
         /\ cancelAt' = [cancelAt EXCEPT ![t] =
                IF InQueue(t) THEN "queued"
                ELSE IF tasks[t].status = "processing"
                        /\ proc \in {"none", "alive"}
                     THEN "processing"
                ELSE "none"]
         /\ files' = files \ {tasks[t].result_file_id}
         /\ UNCHANGED <<fsVars, queueVars, active_ffmpeg_processes,
                        wsVars, tickVars, pc, cur, curUser, snapLen, success,
                        full_stderr, postOk, skipped, enqLog, watch, refused, restVars>>

\* delete_task for the caller u: 403 for a task of another owner; else, if
\* the row exists, kill when pending or processing and delete the row
delete_task(u, t) ==
    IF not_authorized(u, t)
    THEN /\ refused' = <<"delete", 403>>
         /\ UNCHANGED <<appVars, restVars>>
    ELSE /\ Exists(t)
         /\ proc' = IF tasks[t].status \in {"processing", "pending"}
                    THEN terminate_task_process(t) ELSE proc
         /\ tasks' = delete_row(tasks, t)
         /\ cancelAt' = [cancelAt EXCEPT ![t] =
                IF InQueue(t) THEN "queued"
                ELSE IF tasks[t].status = "processing"
                        /\ proc \in {"none", "alive"}
                     THEN "processing"
                ELSE "none"]
         /\ UNCHANGED <<files, fsVars, queueVars, active_ffmpeg_processes,
                        wsVars, tickVars, pc, cur, curUser, snapLen, success,
                        full_stderr, postOk, skipped, enqLog, watch, refused, restVars>>

\* ------------------------------------------- GET /api/task-status/{id}
\* not db_task or db_task.owner_id != current_user.id: the 404
task_not_found(u, t) == ~Exists(t) \/ tasks[t].owner # u

\* get_task_status for the caller u: the row, or 404; nothing is written
get_task_status(u, t) ==
    /\ refused' = IF task_not_found(u, t) THEN <<"status", 404>> ELSE refused
    /\ UNCHANGED <<appVars, restVars>>

\* the caller is the owner of the task
Owner(t) == tasks[t].owner

\* ------------------------------------------------ DELETE /api/delete-file
\* delete_user_file by the owner of the asset a, an upload or a result:
\* crud.delete_file deletes the tasks whose result_file_id is a, then the
\* tasks whose source_filename is the filename of a, whoever owns them, then
\* the asset row; the stored file of a result is removed
delete_file(a) ==
    /\ a \in files \cup uploaded
    /\ tasks' = [t \in TaskIds |->
                   IF Exists(t)
                      /\ \/ tasks[t].result_file_id = a
                         \/ filename(tasks[t].source) = filename(a)
                   THEN Absent ELSE tasks[t]]
    /\ files' = files \ {a}
    /\ uploaded' = uploaded \ {a}
    /\ finalFile' = finalFile \ {a}
    /\ UNCHANGED <<tempFile, queueVars, active_ffmpeg_processes,
                   wsVars, tickVars, runVars, histVars, watch, refused,
                   cmdVars, since_update, waited>>

\* --------------------------------------------------- /ws/progress/{id}
\* a websocket object that is not open and that no pending send refers to
FreeSocket(s) ==
    /\ ws_task[s] = 0
    /\ IF sending = NoFrame THEN TRUE ELSE sending[1] # s

\* websocket_endpoint, manager.connect: accept a new websocket and store it
\* under the task id, over whatever was registered there
connect(t) ==
    /\ LoopFree
    /\ \E s \in Sockets :
        /\ FreeSocket(s)
        /\ \A s2 \in Sockets : FreeSocket(s2) => s <= s2
        /\ ws_task' = [ws_task EXCEPT ![s] = t]
        /\ ws_inbox' = [ws_inbox EXCEPT ![s] = <<>>]
        /\ active_connections' = [active_connections EXCEPT ![t] = s]
    /\ watch' = IF t = cur THEN 0 ELSE watch
    /\ UNCHANGED <<dbVars, fsVars, queueVars, active_ffmpeg_processes,
                   tickVars, runVars, histVars, refused, restVars>>

\* the client closes websocket s: receive_text raises WebSocketDisconnect
\* and the handler calls manager.disconnect(task_id) with its own task id
websocket_disconnect(s) ==
    /\ LoopFree
    /\ ws_task[s] # 0
    /\ active_connections' = disconnect(active_connections, ws_task[s])
    /\ ws_task' = [ws_task EXCEPT ![s] = 0]
    /\ ws_inbox' = [ws_inbox EXCEPT ![s] = <<>>]
    /\ watch' = IF ws_task[s] = cur THEN 0 ELSE watch
    /\ UNCHANGED <<dbVars, fsVars, queueVars, active_ffmpeg_processes,
                   tickVars, runVars, histVars, refused, restVars>>

\* ------------------------------------------------------- startup_event
startup_event_allrows ==
    /\ \E t \in TaskIds : Exists(t)
    /\ tasks' = [t \in TaskIds |->
                   IF tasks[t].status # "absent"
                   THEN [tasks[t] EXCEPT !.status = "failed",
                                         !.details = "restart"]
                   ELSE tasks[t]]
    /\ user_task_queues' = [u \in Users |-> <<>>]
    /\ queue_keys' = <<>>
    /\ active_ffmpeg_processes' = {}
    /\ active_connections' = [t \in TaskIds |-> 0]
    /\ ws_task' = [s \in Sockets |-> 0]
    /\ ws_inbox' = [s \in Sockets |-> <<>>]
    /\ sending' = NoFrame
    /\ last_progress' = -1
    /\ total_duration' = 0
    /\ pc' = "idle"
    /\ cur' = 0
    /\ curUser' = 0
    /\ snapLen' = 0
    /\ proc' = "none"
    /\ waited' = FALSE
    /\ success' = FALSE
    /\ full_stderr' = ""
    /\ postOk' = FALSE
    /\ skipped' = {}
    /\ enqLog' = [u \in Users |-> <<>>]
    /\ cancelAt' = [t \in TaskIds |-> "none"]
    /\ watch' = 0
    /\ refused' = <<>>
    /\ UNCHANGED <<files, fsVars, inVars, since_update>>

\* the process stops at any point and is started again: memory is new, the
\* store and the disk stay, pending and processing rows become failed with
\* the details "Server restarted while task was pending/processing."; the
\* worker is created after that
startup_event ==
    /\ \E t \in TaskIds : Exists(t)
    /\ tasks' = [t \in TaskIds |->
                   IF tasks[t].status \in {"processing", "pending"}
                   THEN [tasks[t] EXCEPT !.status = "failed",
                                         !.details = "restart"]
                   ELSE tasks[t]]
    /\ user_task_queues' = [u \in Users |-> <<>>]
    /\ queue_keys' = <<>>
    /\ active_ffmpeg_processes' = {}
    /\ active_connections' = [t \in TaskIds |-> 0]
    /\ ws_task' = [s \in Sockets |-> 0]
    /\ ws_inbox' = [s \in Sockets |-> <<>>]
    /\ sending' = NoFrame
    /\ last_progress' = -1
    /\ total_duration' = 0
    /\ pc' = "idle"
    /\ cur' = 0
    /\ curUser' = 0
    /\ snapLen' = 0
    /\ proc' = "none"
    /\ waited' = FALSE
    /\ success' = FALSE
    /\ full_stderr' = ""
    /\ postOk' = FALSE
    /\ skipped' = {}
    /\ enqLog' = [u \in Users |-> <<>>]
    /\ cancelAt' = [t \in TaskIds |-> "none"]
    /\ watch' = 0
    /\ refused' = <<>>
    /\ UNCHANGED <<files, fsVars, inVars, since_update>>

\* ------------------------------------------------------------------- Next
Worker ==
    \/ worker_pick
    \/ run_mark_processing
    \/ blocking_spawn
    \/ blocking_stall
    \/ blocking_return
    \/ post_success
    \/ post_failure
    \/ notify_completed
    \/ notify_failed
    \/ run_cleanup

\* identifiers in use: rows, queue entries, the running task, files on disk
OpenTasks == {t \in TaskIds : ~Fresh(t)}

\* no websocket is registered for the running task
Unwatched == cur # 0 /\ active_connections[cur] = 0

\* every operation, with at most MaxOpen task identifiers in use and at most
\* MaxObservers websockets open at a time; the ticks published to a
\* registered websocket are left to NextObs
Next ==
    \/ \E u \in Users : \E fs \in OneOwnFile(u) :
          Cardinality(OpenTasks) < MaxOpen /\ process_files(u, fs)
    \/ worker_pick /\ total_duration' \in SchedDurations
    \/ run_mark_processing
    \/ blocking_spawn
    \/ run_exception
    \/ child_write
    \/ child_exit
    \/ \E e \in SchedElapsed, late \in BOOLEAN :
          blocking_progress(e, late) /\ Unwatched
    \/ blocking_stall
    \/ blocking_return
    \/ blocking_exception
    \/ post_success
    \/ post_failure
    \/ notify_completed
    \/ notify_failed
    \/ run_cleanup
    \/ \E t \in TaskIds : delete_task(Owner(t), t)
    \/ \E a \in TaskIds : delete_file(a)
    \/ \E t \in TaskIds :
          Cardinality(OpenSockets) < MaxObservers /\ connect(t)
    \/ \E s \in Sockets : websocket_disconnect(s)
    \/ startup_event

Spec == Init /\ [][Next]_vars

\* scheduling only: requests, the worker, the child and DELETE /api/tasks,
\* with all MaxTasks identifiers and no websocket
NextSched ==
    \/ \E u \in Users : \E fs \in OneOwnFile(u) : process_files(u, fs)
    \/ worker_pick /\ total_duration' \in SchedDurations
    \/ run_mark_processing
    \/ blocking_spawn
    \/ run_exception
    \/ child_write
    \/ child_exit
    \/ blocking_stall
    \/ blocking_return
    \/ blocking_exception
    \/ post_success
    \/ post_failure
    \/ notify_completed
    \/ notify_failed
    \/ run_cleanup
    \/ \E t \in TaskIds : delete_task(Owner(t), t)

\* the event loop keeps running the worker coroutine and the executor thread,
\* and a child that stays silent is killed after 30 s: the run of a task
\* always goes on
SpecFair == Init /\ [][NextSched]_vars /\ WF_vars(Worker)

\* one task at a time with its websockets: the requests of one user, the
\* run of a task, the ticks it publishes, up to MaxSockets websockets for
\* identifiers in use, and DELETE /api/tasks
NextObs ==
    \/ \E fs \in OneOwnFile(1) :
          Cardinality(OpenTasks) < MaxOpenObs /\ process_files(1, fs)
    \/ worker_pick
    \/ run_mark_processing
    \/ blocking_spawn
    \/ run_exception
    \/ child_write
    \/ child_exit
    \/ \E e \in ElapsedVals, late \in BOOLEAN :
          CurFrames < MaxFrames /\ blocking_progress(e, late)
    \/ send_return
    \/ send_raise
    \/ blocking_stall
    \/ blocking_return
    \/ blocking_exception
    \/ post_success
    \/ post_failure
    \/ notify_completed
    \/ notify_failed
    \/ run_cleanup
    \/ \E t \in TaskIds : delete_task(Owner(t), t)
    \/ \E t \in OpenTasks : connect(t)
    \/ \E s \in Sockets : websocket_disconnect(s)

\* the worker waits for a websocket: the await of a terminal send_json
AwaitsObserver ==
    pc \in {"notify", "notify_failed"} /\ active_connections[cur] # 0

\* the steps the worker and the runner thread take by themselves; a step
\* that needs the client of a websocket to receive is not among them
Runner == Worker /\ ~AwaitsObserver

\* a send_json pending on a websocket that has been closed raises
send_closed == send_raise /\ ws_task[sending[1]] = 0

SpecObs == Init /\ [][NextObs]_vars /\ WF_vars(Runner) /\ WF_vars(send_closed)

\* POST /api/process with every list of texts for every caller, at most
\* MaxOpen identifiers in use; the worker takes the tasks from the queues
\* and a run ends at once (the executor call raising); DELETE by the owner
NextPost ==
    \/ \E u \in Users : \E fs \in Requests :
          /\ Cardinality(OpenTasks) + Len(ValidFiles(u, fs)) <= MaxOpen
          /\ process_files(u, fs)
    \/ worker_pick /\ total_duration' \in SchedDurations
    \/ run_mark_processing
    \/ run_exception
    \/ run_cleanup
    \/ \E t \in TaskIds : delete_task(Owner(t), t)

SpecPost == Init /\ [][NextPost]_vars

\* DELETE /api/tasks and GET /api/task-status by every caller for every
\* identifier, with the run of a task along the path of a child that stays
\* silent
NextReq ==
    \/ \E u \in Users : \E fs \in OneOwnFile(u) :
          Cardinality(OpenTasks) < MaxOpen /\ process_files(u, fs)
    \/ worker_pick /\ total_duration' \in SchedDurations
    \/ run_mark_processing
    \/ blocking_spawn
    \/ blocking_stall
    \/ post_failure
    \/ notify_failed
    \/ run_cleanup
    \/ \E u \in Users : \E t \in TaskIds : delete_task(u, t)
    \/ \E u \in Users : \E t \in TaskIds : get_task_status(u, t)

SpecReq == Init /\ [][NextReq]_vars

\* the default store, the SQLite file sql_app.db
InitSqlite ==
    /\ InitApp
    /\ payload = NoPayload
    /\ gpus = {}
    /\ command = <<>>
    /\ SQLALCHEMY_DATABASE_URL = "sqlite"
    /\ since_update = Untimed

\* requests, cancels and runs over the SQLite store, at most MaxQueue
\* entries on a queue; a run goes along the path of a child that stays silent
NextSqlite ==
    \/ \E u \in Users : \E fs \in OneOwnFile(u) :
          Len(user_task_queues[u]) < MaxQueue /\ process_files(u, fs)
    \/ worker_pick /\ total_duration' \in SchedDurations
    \/ run_mark_processing
    \/ blocking_spawn
    \/ blocking_stall
    \/ post_failure
    \/ notify_failed
    \/ run_cleanup
    \/ \E t \in TaskIds : delete_task(Owner(t), t)

SpecSqlite == InitSqlite /\ [][NextSqlite]_vars

\* a file appears at the final_output_path of the task that is being run
\* before the coordinator promotes the temp file
final_present ==
    /\ pc \in {"spawn", "running", "returned"}
    /\ cur \notin finalFile
    /\ finalFile' = finalFile \cup {cur}
    /\ UNCHANGED <<dbVars, tempFile, queueVars, active_ffmpeg_processes,
                   wsVars, tickVars, runVars, histVars, watch, refused, restVars>>

\* the runs of the tasks with the files they leave: the child writes its
\* output or not, post-processing succeeds or fails, the final path is
\* free or taken; no websockets
NextFs ==
    \/ \E u \in Users : \E fs \in OneOwnFile(u) :
          Cardinality(OpenTasks) < MaxOpen /\ process_files(u, fs)
    \/ worker_pick /\ total_duration' \in SchedDurations
    \/ run_mark_processing
    \/ blocking_spawn
    \/ child_write
    \/ child_exit
    \/ blocking_return
    \/ post_success
    \/ post_failure
    \/ notify_completed
    \/ notify_failed
    \/ run_cleanup
    \/ final_present
    \/ \E t \in TaskIds : delete_task(Owner(t), t)

SpecFs == Init /\ [][NextFs]_vars

\* requests, runs and DELETE /api/delete-file on the uploads and on the
\* results; no websockets
NextDel ==
    \/ \E u \in Users : \E fs \in OneOwnFile(u) :
          Cardinality(OpenTasks) < MaxOpen /\ process_files(u, fs)
    \/ worker_pick /\ total_duration' \in SchedDurations
    \/ run_mark_processing
    \/ blocking_spawn
    \/ child_write
    \/ child_exit
    \/ blocking_return
    \/ post_success
    \/ post_failure
    \/ notify_completed
    \/ notify_failed
    \/ run_cleanup
    \/ \E a \in DOMAIN uploads \cup TaskIds : delete_file(a)

SpecDel == Init /\ [][NextDel]_vars

\* the clock of the runner is followed
InitTick ==
    /\ InitApp
    /\ payload = NoPayload
    /\ gpus = {}
    /\ command = <<>>
    /\ SQLALCHEMY_DATABASE_URL = "postgresql"
    /\ since_update = 0

\* one open task with its websockets and every tick, as in NextObs, and
\* the time that passes between the ticks
NextTick ==
    \/ NextObs
    \/ time_passes

SpecTick == InitTick /\ [][NextTick]_vars

\* the synthesizer alone, for every payload and every probe result
InitCmd ==
    /\ InitApp
    /\ payload \in Payloads
    /\ gpus \in GpuSets
    /\ command = <<>>
    /\ SQLALCHEMY_DATABASE_URL = "postgresql"
    /\ since_update = Untimed

NextCmd == synthesize

SpecCmd == InitCmd /\ [][NextCmd]_vars

TypeOK ==
    /\ pc \in {"idle", "pass", "picked", "spawn", "running", "returned", "notify",
               "notify_failed", "cleanup"}
    /\ active_connections \in [TaskIds -> 0..MaxSockets]
    /\ ws_task \in [Sockets -> 0..MaxTasks]
    /\ sending = NoFrame \/ sending \in Sockets \X TickVals
    /\ last_progress \in {-1} \cup TickVals
    /\ total_duration \in Durations
    /\ watch \in 0..MaxSockets
    /\ refused \in {<<>>, <<"process", 404>>, <<"delete", 403>>,
                    <<"status", 404>>}
    /\ cur \in 0..MaxTasks
    /\ proc \in {"none", "alive", "exit0", "exit1", "killed"}
    /\ full_stderr \in {"", "stderr", "timeout", "notfound", "exception"}
    /\ \A t \in TaskIds : tasks[t].status \in
           {"absent", "pending", "processing", "completed", "failed"}
    /\ payload \in Payloads \cup {NoPayload}
    /\ gpus \in GpuSets
    /\ SQLALCHEMY_DATABASE_URL \in {"sqlite", "postgresql"}
    /\ since_update \in {Untimed, 0, 3}
    /\ uploaded \subseteq DOMAIN uploads
    /\ waited \in BOOLEAN
    /\ command \in Seq({"ffmpeg", "-y", "in", "out"}) \/ Len(command) >= 13

\* =================================================================== claims
Started == pc \in {"idle", "pass"} /\ pc' = "picked"

StatusOf(t) == tasks[t].status

\* C1: round-robin service. When user v gets a task started while user u has
\* a non-empty queue, v gets no second task started before u has had one
\* (A has queued tasks, B enqueues one: B's starts before A's second).
C1_RoundRobin ==
    [][Started => \A u \in Users : <<u, curUser'>> \notin skipped]_vars

\* C2: no starvation. Under SpecFair (every started task terminates and the
\* worker keeps running) every task waiting in a queue is eventually started
\* (or its record is deleted first), however many tasks other users keep
\* enqueueing.
Waiting(t) == InQueue(t) /\ Exists(t)

C2_NoStarvation ==
    \A t \in TaskIds : Waiting(t) ~> ~Waiting(t)

\* C3: a task cancelled while it waited in its owner's queue is never picked
\* up by the worker afterwards (no child is spawned, no output is promoted).
C3_CancelQueuedNeverStarted ==
    \A t \in TaskIds :
        cancelAt[t] = "queued" => (cur # t /\ t \notin finalFile)

\* C4: a task cancelled while its status was processing and its child had not
\* exited (not yet spawned, or alive) never has run_ffmpeg_blocking return
\* success, and no output is promoted for it.
C4_CancelProcessingKills ==
    \A t \in TaskIds :
        cancelAt[t] = "processing" =>
            /\ ~(cur = t /\ pc \in {"returned", "notify", "cleanup"} /\ success)
            /\ t \notin finalFile

\* C5: the stored status of a task moves only along pending -> processing,
\* processing -> completed, processing -> failed and pending -> failed; a
\* completed or failed status never changes.
AllowedEdges ==
    {<<"pending", "processing">>, <<"processing", "completed">>,
     <<"processing", "failed">>, <<"pending", "failed">>}

C5_StatusTransitions ==
    [][\A t \in TaskIds :
          (Exists(t) /\ tasks'[t].status # "absent") =>
              \/ tasks'[t].status = tasks[t].status
              \/ <<tasks[t].status, tasks'[t].status>> \in AllowedEdges]_vars

\* C6: every completed task has progress 100, a result asset id, and the
\* result asset is registered and its stored file exists on disk.
C6_CompletedInvariant ==
    \A t \in TaskIds :
        StatusOf(t) = "completed" =>
            /\ tasks[t].progress = 100
            /\ tasks[t].result_file_id # 0
            /\ tasks[t].result_file_id \in files
            /\ tasks[t].result_file_id \in finalFile

C6_Witness ==
    \E t \in TaskIds : StatusOf(t) = "completed" /\ pc = "idle"

\* C7: every failed task that the coordinator is not in the middle of running
\* has no result asset id and no temp output file on disk.
C7_FailedInvariant ==
    \A t \in TaskIds :
        (StatusOf(t) = "failed" /\ cur # t) =>
            (tasks[t].result_file_id = 0 /\ t \notin tempFile)

\* C8: when the child exited zero and post-processing succeeded, the task is
\* stored as completed with its result asset when the coordinator reaches its
\* cleanup, whether or not the send of the terminal frame succeeded.
C8_SendFailureHarmless ==
    (pc = "cleanup" /\ postOk /\ Exists(cur)) =>
        (StatusOf(cur) = "completed" /\ tasks[cur].result_file_id # 0)

Last(q) == q[Len(q)]

\* C11: progress never decreases. In every step, the stored progress of a
\* task that stays in the store does not become smaller, and a frame a
\* websocket receives carries a progress that is not smaller than that of
\* the frame it received before, whatever time= tokens the child prints.
C11_ProgressMonotone ==
    [][/\ \A t \in TaskIds :
            (Exists(t) /\ tasks'[t].status # "absent") =>
                tasks'[t].progress >= tasks[t].progress
       /\ \A s \in Sockets :
            (ws_inbox[s] # <<>> /\ Len(ws_inbox'[s]) > Len(ws_inbox[s])) =>
                Last(ws_inbox'[s])[1] >= Last(ws_inbox[s])[1]]_vars

TerminalFrames(q) == {i \in 1..Len(q) : IsTerminalFrame(q[i])}

\* C12: exactly one terminal frame. When the run of a task reaches its
\* cleanup and one websocket has been registered for the task since it was
\* picked (never displaced, never closed, no send to it raised), that
\* websocket has received exactly one frame with a status, and it is the
\* last frame it received; the cleanup then removes it from the registry.
C12_OneTerminalFrame ==
    (pc = "cleanup" /\ watch # 0) =>
        /\ Cardinality(TerminalFrames(ws_inbox[watch])) = 1
        /\ IsTerminalFrame(Last(ws_inbox[watch]))

\* C13: publishing never blocks the runner. Under SpecObs (the worker and
\* the runner thread keep taking the steps they can take by themselves,
\* nothing is assumed about the client of a websocket) a run whose runner
\* has handed a tick to send_progress still leaves run_ffmpeg_blocking: the
\* stall timeout or the end of stderr is acted on although the websocket
\* never finishes receiving.
C13_PublishNeverBlocks ==
    (pc = "running" /\ sending # NoFrame) ~> (pc # "running")

NonTerminal == {"pending", "processing"}

C15_CancelTerminalNoop ==
    [][\A t \in TaskIds :
          (delete_task(Owner(t), t) /\ StatusOf(t) \in Terminal) =>
              /\ tasks' = tasks
              /\ files' = files /\ finalFile' = finalFile
              /\ proc' = proc]_vars

\* C15 (amended): DELETE /api/tasks/{id} on a completed or failed task
\* removes the row of that task and nothing else: the other rows, the result
\* asset, the files on disk, the child process and its table are as before;
\* and after any DELETE the row is gone, so that a second DELETE of the same
\* task finds nothing to kill or delete.
C15_CancelTerminalDeletesRowOnly ==
    [][\A t \in TaskIds :
          delete_task(Owner(t), t) =>
              /\ tasks'[t] = Absent
              /\ StatusOf(t) \in Terminal =>
                    /\ \A t2 \in TaskIds \ {t} : tasks'[t2] = tasks[t2]
                    /\ files' = files /\ fsVars' = fsVars
                    /\ proc' = proc
                    /\ active_ffmpeg_processes' = active_ffmpeg_processes]_vars

C15_Witness ==
    \E t \in TaskIds :
        ~Exists(t) /\ t \in files /\ t \in finalFile /\ cur # t

\* the run of cur has ended with an error: a missing binary, a non-zero
\* exit, a stall, a failing post-processing or an unexpected exception
Errored == pc \in {"notify_failed", "cleanup"} /\ ~postOk

\* C16: an error in the run of one task does not stop the worker. Under
\* SpecFair, whenever the run of a task has ended with an error, every task
\* that is waiting in a queue at that moment (of any user) is started later
\* (or its record is deleted first).
C16_ErrorsDoNotStopDispatcher ==
    \A t \in TaskIds : (Errored /\ Waiting(t)) ~> ~Waiting(t)

\* C17: one observer per task, the second attach displaces and closes the
\* first. In every step in which the websocket registered for a task is
\* replaced by another websocket, the websocket that was registered before
\* is closed by that step (and the registry holds the new one alone).
C17_DisplacedObserverClosed ==
    [][\A t \in TaskIds :
          (/\ active_connections[t] # 0
           /\ active_connections'[t] # 0
           /\ active_connections'[t] # active_connections[t]) =>
              ws_task'[active_connections[t]] = 0]_vars

\* C18: progress 0 is published at the start. When a websocket has been
\* registered for the running task since before it was picked, the first
\* frame it receives in the run, if it has received any, is {progress: 0}:
\* no tick and no terminal frame comes before it.
C18_FirstFrameIsZero ==
    (watch # 0 /\ ws_inbox[watch] # <<>>) =>
        Head(ws_inbox[watch]) = Frame(0, "")

\* C19: 100 is reserved for completed. Every frame without a status that a
\* websocket has received (a tick) carries a progress of at most 99, and so
\* does a tick whose send is pending; a received frame that carries 100 has
\* the status completed; a row whose stored progress is 100 has the status
\* completed.
C19_HundredOnlyWithCompleted ==
    /\ \A s \in Sockets : \A i \in 1..Len(ws_inbox[s]) :
          /\ ~IsTerminalFrame(ws_inbox[s][i]) => ws_inbox[s][i][1] <= 99
          /\ ws_inbox[s][i][1] = 100 => ws_inbox[s][i][2] = "completed"
    /\ sending # NoFrame => sending[2] <= 99
    /\ last_progress <= 99
    /\ \A t \in TaskIds : tasks[t].progress = 100 => StatusOf(t) = "completed"

\* C20: no ticks without a duration. While a task whose total_duration is 0
\* or negative is being run, no tick is being sent or has been published
\* (last_progress is still -1), a websocket registered for it since the pick
\* has received no frame without a status, and the stored progress is the 0
\* of the start or the 100 of completed; and when the run reaches its
\* cleanup the row, if it still exists, is completed or failed and that
\* websocket has received a terminal frame.
C20_ZeroDurationNoTicks ==
    (cur # 0 /\ total_duration <= 0) =>
        /\ sending = NoFrame
        /\ last_progress = -1
        /\ watch # 0 =>
              \A i \in 1..Len(ws_inbox[watch]) : IsTerminalFrame(ws_inbox[watch][i])
        /\ Exists(cur) => tasks[cur].progress \in {0, 100}
        /\ pc = "cleanup" =>
              /\ Exists(cur) => StatusOf(cur) \in Terminal
              /\ watch # 0 => TerminalFrames(ws_inbox[watch]) # {}

\* what a return of run_ffmpeg_blocking through the stall timeout leaves: the
\* child killed, the flag False with the timeout text, no table entry for the
\* task, and at the cleanup a row that, if it still exists, is failed
C21_StallEffects ==
    full_stderr = "timeout" =>
        /\ proc = "killed" /\ ~success
        /\ cur \notin active_ffmpeg_processes
        /\ (pc = "cleanup" /\ Exists(cur)) => StatusOf(cur) = "failed"

\* C21: the stall timeout. Whenever run_ffmpeg_blocking is running a child
\* that is alive, the 30 s timeout is armed (the stall step can be taken if
\* the child stays silent); and once the runner has returned through it the
\* child is killed, the return value is failure with the timeout text, the
\* task has no entry in the active-process table and the task ends failed.
C21_StallTimeout ==
    /\ (pc = "running" /\ proc = "alive") => ENABLED blocking_stall
    /\ C21_StallEffects


\* the identifiers the texts of a request parse to, in the order of the list
C22_Parsed(fs) == [i \in 1..Len(fs) |-> int(fs[i])]

\* ... those of them that name an asset owned by u
C22_Valid(u, fs) ==
    SelectSeq(C22_Parsed(fs),
              LAMBDA f : f \in DOMAIN uploads /\ uploads[f] = u)

\* the entries a step appends to the queue of u
C22_Added(u) ==
    SubSeq(user_task_queues'[u], Len(user_task_queues[u]) + 1,
           Len(user_task_queues'[u]))

\* C22: POST /api/process creates a task only for the texts that parse as an
\* integer and name an asset owned by the caller. In every step of
\* process_files for caller u, one row is created for each such text and no
\* other row is created or changed; each new row is pending, owned by u, with
\* progress 0; the new tasks are appended to the queue of u, and to no other
\* queue, one per valid text in the order of the request's list; and when no
\* text is valid the answer is 404 and no row and no queue changes.
C22_ProcessValidation ==
    [][\A u \in Users : \A fs \in Requests :
          process_files(u, fs) =>
              LET new   == {t \in TaskIds : ~Exists(t) /\ tasks'[t].status # "absent"}
                  valid == C22_Valid(u, fs)
                  added == C22_Added(u)
              IN /\ Cardinality(new) = Len(valid)
                 /\ \A t \in TaskIds \ new : tasks'[t] = tasks[t]
                 /\ \A t \in new :
                       /\ tasks'[t].status = "pending"
                       /\ tasks'[t].owner = u
                       /\ tasks'[t].progress = 0
                 /\ user_task_queues'[u] = user_task_queues[u] \o added
                 /\ Len(added) = Len(valid)
                 /\ \A i \in 1..Len(added) :
                       /\ added[i] \in new
                       /\ tasks'[added[i]].source = valid[i]
                 /\ \A v \in Users \ {u} :
                       user_task_queues'[v] = user_task_queues[v]
                 /\ IF valid = <<>>
                    THEN /\ refused' = <<"process", 404>>
                         /\ tasks' = tasks
                         /\ user_task_queues' = user_task_queues
                    ELSE refused' = refused]_vars

C22_Witness ==
    /\ refused = <<"process", 404>>
    /\ \E u \in Users :
          /\ Len(user_task_queues[u]) = 2
          /\ tasks[user_task_queues[u][1]].source = 77
          /\ tasks[user_task_queues[u][2]].source = 7
          /\ \A i \in 1..2 : StatusOf(user_task_queues[u][i]) = "pending"

\* what a refused request leaves alone: the rows, the queues, the child and
\* the active-process table
C23_Untouched ==
    /\ tasks' = tasks
    /\ user_task_queues' = user_task_queues
    /\ proc' = proc
    /\ active_ffmpeg_processes' = active_ffmpeg_processes
    /\ pc' = pc /\ cur' = cur

\* C23: no access to another user's task. In every step in which a caller u
\* asks for the status of, or deletes, a task whose row exists and is owned
\* by somebody else, the answer is 404 for task-status and 403 for DELETE,
\* and the row, every queue, the child process and the active-process table
\* are left as they were.
C23_NoCrossUserAccess ==
    [][\A u \in Users : \A t \in TaskIds :
          (Exists(t) /\ tasks[t].owner # u) =>
              /\ delete_task(u, t) =>
                    (refused' = <<"delete", 403>> /\ C23_Untouched)
              /\ get_task_status(u, t) =>
                    (refused' = <<"status", 404>> /\ C23_Untouched)]_vars

C23_Witness ==
    /\ refused = <<"delete", 403>>
    /\ \E t \in TaskIds :
          /\ StatusOf(t) = "processing"
          /\ t \in active_ffmpeg_processes
          /\ proc = "alive"
    /\ \E t \in TaskIds : InQueue(t) /\ Exists(t)


\* ---------------------------------------------------- the synthesizer
\* the synthesizer has returned
Done == command # <<>>

\* the argv has the option o
HasOpt(o) == \E i \in 1..Len(command) : command[i] = o

\* the places of the option o in the argv
Places(o) == {i \in 1..Len(command) : command[i] = o}

\* the value that follows the first o
OptVal(o) ==
    command[(CHOOSE i \in Places(o) : \A j \in Places(o) : i <= j) + 1]

\* the video is encoded again: a container with video and a codec not copy
ReEncoded ==
    /\ payload.container \in {"mp4", "mkv", "mov"}
    /\ payload.videoCodec # "copy"

\* the coding format an encoder name stands for
Family(codec) ==
    CASE codec \in {"libx264", "h264_nvenc", "h264_qsv", "h264_amf",
                    "h264_videotoolbox"} -> "h264"
      [] codec \in {"libx265", "hevc_nvenc", "hevc_qsv", "hevc_amf",
                    "hevc_videotoolbox"} -> "h265"
      [] codec \in {"libaom-av1", "av1_nvenc"} -> "av1"
      [] codec = "vp9" -> "vp9"
      [] OTHER -> "other"

AllowedFamilies(container) ==
    CASE container = "mp4" -> {"h264", "h265", "av1"}
      [] container = "mkv" -> {"h264", "h265", "av1", "vp9"}
      [] container = "mov" -> {"h264", "h265"}

\* C24: container and codec. For the containers mp4, mkv and mov, every
\* video codec alias other than copy and every probe result, the argv has a
\* -c:v whose value is an encoder of a format the container allows (mp4:
\* H.264, H.265, AV1; mkv: those and vp9; mov: H.264, H.265), and a codec of
\* a format that is not allowed is replaced by libx264.
C24_ContainerCodec ==
    (Done /\ ReEncoded) =>
        /\ HasOpt("-c:v")
        /\ Family(OptVal("-c:v")) \in AllowedFamilies(payload.container)
        /\ Family(payload.videoCodec) \notin AllowedFamilies(payload.container)
              => OptVal("-c:v") = "libx264"

\* C25: audio-only containers. For mp3, flac, wav, aac and ogg, whatever the
\* video codec (copy included), the hardware toggle, the preset, the trim and
\* the resolution, the argv has -vn, exactly one -map and it maps 0:a?, and
\* has no -c:v, no -preset or -quality, no -s or -vf and no
\* -force_key_frames.
C25_AudioOnly ==
    (Done /\ payload.container \in {"mp3", "flac", "wav", "aac", "ogg"}) =>
        /\ HasOpt("-vn")
        /\ Cardinality(Places("-map")) = 1
        /\ OptVal("-map") = "0:a?"
        /\ ~HasOpt("0:v?")
        /\ \A o \in {"-c:v", "-preset", "-quality", "-s", "-vf",
                     "-force_key_frames"} : ~HasOpt(o)

C25_Witness ==
    /\ Done
    /\ payload.container = "mp3"
    /\ payload.videoCodec = "libx264"
    /\ payload.useHardwareAcceleration /\ gpus = {"nvidia"}
    /\ payload.trim = <<5, 8, 10>>
    /\ payload.resolution # <<>>
    /\ HasOpt("-vn")

\* the hardware encoder of a vendor for a software encoder
VendorEncoder(vendor, codec) ==
    CASE vendor = "nvidia" /\ codec = "libx264" -> "h264_nvenc"
      [] vendor = "nvidia" /\ codec = "libx265" -> "hevc_nvenc"
      [] vendor = "intel" /\ codec = "libx264" -> "h264_qsv"
      [] vendor = "intel" /\ codec = "libx265" -> "hevc_qsv"
      [] vendor = "amd" /\ codec = "libx264" -> "h264_amf"
      [] vendor = "amd" /\ codec = "libx265" -> "hevc_amf"
      [] vendor = "apple" /\ codec = "libx264" -> "h264_videotoolbox"
      [] vendor = "apple" /\ codec = "libx265" -> "hevc_videotoolbox"

\* C26: hardware encoders. With acceleration asked for and libx264 or
\* libx265 selected (a container with video), the -c:v of the argv is the
\* hardware encoder of the vendor the probe reports, for nvidia, intel, amd
\* and apple; when the probe reports no hardware the software codec is kept.
C26_HardwareEncoder ==
    (/\ Done /\ ReEncoded
     /\ payload.useHardwareAcceleration
     /\ payload.videoCodec \in {"libx264", "libx265"}) =>
        LET vendor == detect_hardware_encoder(gpus)
        IN /\ vendor \in {"nvidia", "intel", "amd", "apple"} =>
                 OptVal("-c:v") = VendorEncoder(vendor, payload.videoCodec)
           /\ vendor = "none" => OptVal("-c:v") = payload.videoCodec

\* the vendor an emitted encoder belongs to
VendorOf(codec) ==
    CASE codec \in {"h264_nvenc", "hevc_nvenc", "av1_nvenc"} -> "nvidia"
      [] codec \in {"h264_qsv", "hevc_qsv"} -> "intel"
      [] codec \in {"h264_amf", "hevc_amf"} -> "amd"
      [] codec \in {"h264_videotoolbox", "hevc_videotoolbox"} -> "apple"
      [] OTHER -> "software"

\* the preset option of the table: <<option, token>>, <<>> for none
PresetOf(vendor, tag) ==
    CASE vendor = "nvidia" ->
           <<"-preset", CASE tag = "fast" -> "p1" [] tag = "balanced" -> "p4"
                          [] tag = "quality" -> "p7">>
      [] vendor = "intel" ->
           <<"-preset", CASE tag = "fast" -> "veryfast"
                          [] tag = "balanced" -> "medium"
                          [] tag = "quality" -> "veryslow">>
      [] vendor = "amd" ->
           <<"-quality", CASE tag = "fast" -> "speed"
                           [] tag = "balanced" -> "balanced"
                           [] tag = "quality" -> "quality">>
      [] vendor = "apple" -> <<>>
      [] vendor = "software" ->
           <<"-preset", CASE tag = "fast" -> "superfast"
                          [] tag = "balanced" -> "medium"
                          [] tag = "quality" -> "slow">>

\* C27: preset mapping. Whenever video is encoded again and the preset tag
\* is fast, balanced or quality, the argv has the preset option of the
\* vendor of the encoder it emits and no other one: -preset p1/p4/p7 for
\* nvidia, -preset veryfast/medium/veryslow for intel, -quality
\* speed/balanced/quality for amd, none for apple, -preset
\* superfast/medium/slow for a software encoder.
C27_PresetMapping ==
    (Done /\ ReEncoded /\ payload.preset \in {"fast", "balanced", "quality"}) =>
        LET opt == PresetOf(VendorOf(OptVal("-c:v")), payload.preset)
        IN /\ \A o \in {"-preset", "-quality"} :
                 HasOpt(o) <=> (opt # <<>> /\ opt[1] = o)
           /\ opt # <<>> =>
                 (OptVal(opt[1]) = opt[2] /\ Cardinality(Places(opt[1])) = 1)

C27_Witness ==
    /\ Done
    /\ payload.preset = "balanced"
    /\ OptVal("-c:v") = "h264_nvenc"
    /\ HasOpt("-preset") /\ OptVal("-preset") = "p4"

\* C28: trimming. The argv has -ss (with the start time) exactly when
\* startTime > 0, -to (with the end time) exactly when endTime <
\* totalDuration, and -force_key_frames expr:eq(n,0) exactly when one of the
\* two holds and the video is encoded again (not copy, not an audio-only
\* container).
C28_Trim ==
    Done =>
        LET startTime     == payload.trim[1]
            endTime       == payload.trim[2]
            totalDuration == payload.trim[3]
        IN /\ HasOpt("-ss") <=> startTime > 0
           /\ HasOpt("-ss") => OptVal("-ss") = str(startTime)
           /\ HasOpt("-to") <=> endTime < totalDuration
           /\ HasOpt("-to") => OptVal("-to") = str(endTime)
           /\ HasOpt("-force_key_frames") <=>
                 /\ startTime > 0 \/ endTime < totalDuration
                 /\ payload.videoCodec # "copy"
                 /\ payload.container \notin {"mp3", "flac", "wav", "aac", "ogg"}
           /\ HasOpt("-force_key_frames") =>
                 OptVal("-force_key_frames") = "expr:eq(n,0)"

C28_Witness ==
    /\ Done
    /\ payload.trim = <<5, 8, 10>>
    /\ payload.videoCodec = "libx265" /\ payload.container = "mkv"
    /\ HasOpt("-ss") /\ HasOpt("-to") /\ HasOpt("-force_key_frames")


\* ------------------------------------------------------------------ C29
\* the number of entries for task t on the queue q
Entries(q, t) == Cardinality({i \in 1..Len(q) : q[i] = t})

\* a task has at most one entry, on one queue, which is its owner's
C29_OneQueue ==
    \A t \in TaskIds :
        /\ \A u, w \in Users :
              (Entries(user_task_queues[u], t) > 0
                 /\ Entries(user_task_queues[w], t) > 0) => u = w
        /\ \A u \in Users : Entries(user_task_queues[u], t) <= 1
        /\ \A u \in Users :
              (Entries(user_task_queues[u], t) > 0 /\ Exists(t)) =>
                  tasks[t].owner = u

\* a task whose status is processing has no entry on a queue
C29_NotBoth ==
    \A t \in TaskIds : tasks[t].status = "processing" => ~InQueue(t)

\* a step that makes one user's queue longer leaves every other queue as
\* it was
C29_EnqueueLocal ==
    [][\A u \in Users :
          Len(user_task_queues'[u]) > Len(user_task_queues[u]) =>
              \A w \in Users \ {u} :
                  user_task_queues'[w] = user_task_queues[w]]_vars

\* C29: queue discipline. In every reachable state a task has at most one
\* queue entry, which is on its owner's queue, and no task is both on a
\* queue and processing (it leaves the queue before it is marked
\* processing). (That enqueueing touches one queue only is C29_EnqueueLocal.)
C29_QueueDiscipline == C29_OneQueue /\ C29_NotBoth


\* ------------------------------------------------------------------ C30
\* C30: the active-process table. In every reachable state the table has
\* an entry only for the task whose runner is executing with its child
\* spawned, it has that entry for as long as the runner executes, and it is
\* empty once run_ffmpeg_blocking has returned, whatever it returned (exit
\* zero, non-zero exit, binary not found, stall, another exception).
C30_TableEntry ==
    /\ \A t \in active_ffmpeg_processes : t = cur /\ pc = "running"
    /\ pc = "running" => cur \in active_ffmpeg_processes
    /\ full_stderr \in {"stderr", "notfound", "timeout", "exception"} =>
           active_ffmpeg_processes = {}

\* the runner has returned through except Exception after the child was
\* spawned, and the entry is gone
C30_Witness ==
    /\ pc = "returned"
    /\ full_stderr = "exception" /\ proc = "alive"
    /\ cur \notin active_ffmpeg_processes


\* ------------------------------------------------------------------ C31
\* C31: the result of the runner. Whenever run_ffmpeg_blocking has
\* returned, its flag is True exactly when the child exited with status
\* zero without having been killed: a killed child (cancel, stall), a
\* non-zero exit and a missing binary give False.
C31_SuccessIffZeroExit ==
    pc = "returned" => (success <=> proc = "exit0")

\* C31, amended: the flag is True exactly when the runner read the child's
\* stderr to its end, waited for it, and the child had exited with status
\* zero without having been killed; a kill (cancel, stall), a non-zero
\* exit, a missing binary and any other exception in the runner, whatever
\* the child did, give False.
C31_SuccessIffWaitedZeroExit ==
    pc = "returned" =>
        /\ success <=> (proc = "exit0" /\ full_stderr = "stderr")
        /\ proc \in {"killed", "exit1", "none"} => ~success
        /\ full_stderr \in {"timeout", "notfound", "exception"} => ~success

\* the runner has returned for a child that a cancel killed
C31_Witness ==
    /\ pc = "returned"
    /\ proc = "killed" /\ full_stderr = "stderr" /\ cancelAt[cur] = "processing"
    /\ ~success


\* ------------------------------------------------------------------ C32
\* the runner starts the send of a tick to the registered websocket
C32_HubStart == sending = NoFrame /\ sending' # NoFrame

\* the runner publishes a tick of a task without a registered websocket
C32_StoreOnly ==
    /\ pc = "running" /\ pc' = "running" /\ cur' = cur
    /\ sending = NoFrame /\ sending' = NoFrame
    /\ \/ last_progress' # last_progress
       \/ since_update' < since_update
       \/ Exists(cur) /\ tasks'[cur].status # "absent"
             /\ tasks'[cur].progress # tasks[cur].progress

\* the coalescing condition for the value p, before the step
C32_Due(p) == p >= last_progress + 10 \/ since_update >= 3

\* a websocket receives the progress frame of the value p
C32_Received(p) ==
    \E s \in Sockets : ws_inbox'[s] = Append(ws_inbox[s], Frame(p, ""))

C33_Failed == success /\ ~postOk

C34_Missing(t) == active_connections[t] = 0

\* disconnect on the registry as it is: nothing changes for a task without
\* a websocket, a second disconnect changes nothing, the other entries stay
C34_Detach ==
    \A t \in TaskIds :
        LET A == active_connections
        IN /\ C34_Missing(t) => disconnect(A, t) = A
           /\ disconnect(disconnect(A, t), t) = disconnect(A, t)
           /\ \A t2 \in TaskIds \ {t} : disconnect(A, t)[t2] = A[t2]

\* C34: hub operations without an observer. send_progress for a task that
\* has no registered websocket delivers no frame, raises nothing (the
\* coordinator goes on as after a delivered frame, the row is not touched)
\* and leaves the registry as it is; disconnect for such a task, also when
\* it follows another disconnect, leaves the registry as it is; and a
\* disconnect changes no entry of another task.
C34_HubNoops ==
    /\ []C34_Detach
    /\ [][/\ (pc \in {"notify", "notify_failed"} /\ C34_Missing(cur)
                 /\ pc' # pc /\ cur' = cur) =>
                /\ pc' = "cleanup"
                /\ tasks' = tasks
                /\ ws_inbox' = ws_inbox
                /\ active_connections' = active_connections
          /\ (pc = "running" /\ pc' = "running" /\ C34_Missing(cur)
                 /\ last_progress' # last_progress) =>
                /\ sending' = NoFrame
                /\ ws_inbox' = ws_inbox
                /\ active_connections' = active_connections
          /\ (run_cleanup /\ C34_Missing(cur)) =>
                active_connections' = active_connections
          /\ run_cleanup =>
                \A t \in TaskIds \ {cur} :
                    active_connections'[t] = active_connections[t]
          /\ \A s \in Sockets :
                websocket_disconnect(s) =>
                    /\ C34_Missing(ws_task[s]) =>
                          active_connections' = active_connections
                    /\ \A t \in TaskIds \ {ws_task[s]} :
                          active_connections'[t] = active_connections[t]]_vars

\* the terminal frame of a task without a websocket has been published,
\* the row is completed, and the websocket of another task is registered
C34_Witness ==
    /\ pc = "cleanup" /\ C34_Missing(cur)
    /\ Exists(cur) /\ tasks[cur].status = "completed"
    /\ \E t \in TaskIds \ {cur} : active_connections[t] # 0



\* ------------------------------------------------------------------ C35
\* C35: disconnect of a displaced observer. When a websocket that is open
\* on a task but no longer registered for it (another one was attached
\* after it) is closed by its client, the websocket that is registered for
\* the task stays registered, so that the later frames of the task go to it.
C35_DisplacedDisconnectKeepsObserver ==
    [][\A s, s2 \in Sockets :
          (/\ s # s2
           /\ ws_task[s] # 0 /\ ws_task[s2] = ws_task[s]
           /\ active_connections[ws_task[s]] = s2
           /\ ws_task'[s] = 0 /\ ws_task'[s2] = ws_task[s2]) =>
              active_connections'[ws_task[s]] = s2]_vars


\* ------------------------------------------------------------------ C36
\* C36: promoted files are registered. In every reachable state a file at
\* the final path of a task has an asset row pointing at it, also when the
\* task row was deleted while the task was queued or running and when the
\* registration of the asset failed.
C36_PromotedRegistered ==
    \A t \in TaskIds : t \in finalFile => t \in files



\* ------------------------------------------------------------------ C37
\* C37: every run ends. Under SpecObs (the worker and the runner thread
\* keep taking the steps they can take by themselves: the child exits or
\* the stall timeout fires, the store answers; nothing is assumed about
\* the clients of the websockets) a task the worker has taken from a queue
\* has its run ended later, with its row completed or failed if it is still
\* there, and the worker is back in its loop, free for the next task.
C37_RunEnds ==
    (pc = "picked") ~>
        (pc = "cleanup" /\ (Exists(cur) => tasks[cur].status \in Terminal))

C37_WorkerFree ==
    (pc = "picked") ~> (pc \in {"idle", "pass"})

C37_EveryRunEnds == C37_RunEnds /\ C37_WorkerFree


\* the task rows that refer to the asset a: it is their source or their
\* result
C38_Refers(t, a) == tasks[t].source = a \/ tasks[t].result_file_id = a

\* C38: deleting an asset removes only task records that refer to that asset
\* and, for an uploaded asset, belong to its owner: every row a
\* delete_file step changes was a row of that kind, the rows of other users
\* whose source has the same display name stay as they are
C38_DeleteOnlyOwnTasks ==
    [][\A a \in DOMAIN uploads \cup TaskIds :
          (a \in files \cup uploaded /\ a \notin files' \cup uploaded')
          => \A t \in TaskIds :
                tasks'[t] # tasks[t]
                => /\ C38_Refers(t, a)
                   /\ a \in DOMAIN uploads => tasks[t].owner = uploads[a]]_vars


\* ------------------------------------------------------------------ C39
\* the vendor of the video encoder the argv names: "software" for a software
\* codec, for copy and for an argv without -c:v (the audio-only outputs)
C39_EmittedVendor ==
    IF HasOpt("-c:v") THEN VendorOf(OptVal("-c:v")) ELSE "software"

\* the input-side decoder flags name the device kind: -hwaccel k together
\* with -hwaccel_output_format k
C39_InputFlags(k) ==
    /\ HasOpt("-hwaccel") /\ OptVal("-hwaccel") = k
    /\ HasOpt("-hwaccel_output_format") /\ OptVal("-hwaccel_output_format") = k

\* C39: input-side hardware flags and GPU-side scaler. The argv has -hwaccel
\* (cuda or qsv, with the matching -hwaccel_output_format) and a scale_cuda
\* or scale_qsv filter only when the video encoder it names is the hardware
\* encoder of that vendor; with a software codec, with copy and with an
\* audio-only output there is no -hwaccel
C39_InputHwaccelMatchesEncoder ==
    Done =>
        /\ HasOpt("-hwaccel") =>
              \/ C39_InputFlags("cuda") /\ C39_EmittedVendor = "nvidia"
              \/ C39_InputFlags("qsv") /\ C39_EmittedVendor = "intel"
        /\ HasOpt("-hwaccel_output_format") => HasOpt("-hwaccel")
        /\ HasOpt("scale_cuda=640:480") => C39_EmittedVendor = "nvidia"
        /\ HasOpt("scale_qsv=640:480") => C39_EmittedVendor = "intel"


\* ------------------------------------------------------------------ C40
\* run_ffmpeg_blocking has returned for a task whose child was spawned, by
\* the end of the child's output (exit with status zero or not, kill by a
\* cancel) or by the stall timeout
C40_ReturnedAfterSpawn ==
    /\ pc = "returned"
    /\ proc # "none"
    /\ full_stderr \in {"stderr", "timeout"}

\* C40: the child is reaped before the runner returns. On every path by
\* which the runner returns after the child was spawned (zero exit, non-zero
\* exit, kill by cancel, kill by stall timeout), proc.wait() has returned
C40_ChildReaped == C40_ReturnedAfterSpawn => waited

====
